---------------------------- MODULE Spec2Model ----------------------------
(***************************************************************************)
(* KNN decision-boundary visualisation (src/src/App.tsx).                  *)
(*                                                                         *)
(* State: the React state of App (data, k, isPlaying), the animationRef,   *)
(* the browser's queue of requested animation frames, and what the last    *)
(* drawVisualization call left in the SVG.  Every event handler is one     *)
(* action: the state update, the re-render and the effects whose           *)
(* dependencies changed run to completion before the next event.           *)
(*                                                                         *)
(* Measurements are integers in units of 0.5 mm, so that the query         *)
(* (41, 17.5) is <<82, 35>>.  A `distance` is represented by its square:   *)
(* Math.sqrt is strictly increasing and injective on these integers, so    *)
(* every comparison of two distances is unchanged.                         *)
(***************************************************************************)
EXTENDS Integers, Sequences, FiniteSets, TLC

VARIABLES
    data,          \* useState<Penguin[]>([])            (line 13)
    k,             \* useState<number>(1)                (line 14)
    isPlaying,     \* useState(false)                    (line 18)
    animationRef,  \* useRef<number | null>(null)        (line 19)
    frames,        \* animation frame requests the browser still holds
    fetchPc,       \* position of the fetchData promise  (lines 22-32)
    svg,           \* what drawVisualization drew last   (lines 85-106)
    drawStatus,    \* how the last drawVisualization call ended
    classifyCalls  \* classifyPoint calls made by the last drawVisualization call

vars == <<data, k, isPlaying, animationRef, frames, fetchPc, svg, drawStatus, classifyCalls>>

-----------------------------------------------------------------------------
(* Bounds and program constants *)

MaxLen == 2          \* rows the fetch delivers, at most

MaxK == 100          \* prevK < 100 in animate; max="100" of the slider
SliderMin == 1       \* min="1" of the slider
NaN == -1            \* the value of arithmetic on a non-numeric measurement
null == 0            \* animationRef.current before any request (falsy)

Undefined == "undefined"    \* a property an object does not have
TypeError == "TypeError"    \* reduce of an empty array with no initial value

Min(a, b) == IF a < b THEN a ELSE b

-----------------------------------------------------------------------------
(* The rows Papa.parse can deliver.  dynamicTyping leaves a non-numeric     *)
(* cell ("NA") non-numeric; arithmetic on it gives NaN.                     *)

Penguin(s, l, d) == [species |-> s, bill_length_mm |-> l, bill_depth_mm |-> d]

Rows == { Penguin("A", 80, 36), Penguin("B", 100, 30), Penguin("B", NaN, 36) }

\* [(40,18,A), (42,17,A), (50,15,B)]
ScenarioData == << Penguin("A", 80, 36), Penguin("A", 84, 34), Penguin("B", 100, 30) >>
ScenarioQuery == ("0" :> 82) @@ ("1" :> 35)

SeqsUpTo(S, n) == UNION { [1..m -> S] : m \in 0..n }

DataSets == SeqsUpTo(Rows, MaxLen) \cup {ScenarioData}

IsNaN(v) == v = NaN

\* the slider positions tried: around the number of rows, and at the top of the range
SliderValues == (SliderMin..(MaxLen + 1)) \cup {MaxK - 1, MaxK}

-----------------------------------------------------------------------------
(* JavaScript helpers *)

\* Array.prototype.slice(0, n): the first n elements, or all when there are fewer
Slice(s, n) == SubSeq(s, 1, Min(n, Len(s)))

\* a - b, and Math.pow(a - b, 2), on numbers that may be NaN
Minus(a, b) == IF IsNaN(a) \/ IsNaN(b) THEN NaN ELSE a - b
Pow2(a) == IF IsNaN(a) THEN NaN ELSE a * a
Plus(a, b) == IF IsNaN(a) \/ IsNaN(b) THEN NaN ELSE a + b

\* d => d.species, applied to a row (has the property) or to an [x, y] array (has not)
species(d) == IF "species" \in DOMAIN d THEN d.species ELSE Undefined

\* line 76 (the squared distance stands for the distance)
distance(d, point) ==
    Plus(Pow2(Minus(d.bill_length_mm, point["0"])), Pow2(Minus(d.bill_depth_mm, point["1"])))

\* lines 74-77
distances(limitedData, point) ==
    [i \in 1..Len(limitedData) |->
        [species |-> limitedData[i].species, distance |-> distance(limitedData[i], point)]]

\* a plausible slip: the operands exchanged, which sorts farthest first
compareDescending(a, b) ==
    IF IsNaN(Minus(b.distance, a.distance)) THEN 0 ELSE b.distance - a.distance

\* (a, b) => a.distance - b.distance; a NaN result counts as +0 (ECMAScript SortCompare)
compare(a, b) == IF IsNaN(Minus(a.distance, b.distance)) THEN 0 ELSE a.distance - b.distance

\* the place of element i in the stable ascending order: after every element
\* that compares smaller, and after every earlier element that compares equal
Place(s, i) ==
    1 + Cardinality({ j \in 1..Len(s) :
                        \/ compare(s[j], s[i]) < 0
                        \/ compare(s[j], s[i]) = 0 /\ j < i })

StableSort(s) == [p \in 1..Len(s) |-> s[CHOOSE i \in 1..Len(s) : Place(s, i) = p]]

PermutationsOf(s) == { [i \in 1..Len(s) |-> s[p[i]]] : p \in Permutations(1..Len(s)) }

\* distances.sort(compare), line 78.  With numbers only the comparator is
\* consistent and the sort is the stable ascending one.  With a NaN distance
\* the comparator is not consistent and the order is implementation-defined:
\* any permutation.
sort(s) ==
    IF \E i \in 1..Len(s) : IsNaN(s[i].distance)
    THEN PermutationsOf(s)
    ELSE {StableSort(s)}

\* d3.rollup(values, v => v.length, d => d.species): one <<key, count>> entry
\* per key, in the order of the keys' first occurrence (lines 80, 101)
FirstIndex(values, key) ==
    CHOOSE i \in 1..Len(values) :
        /\ species(values[i]) = key
        /\ \A j \in 1..(i - 1) : species(values[j]) # key

rollup(values) ==
    LET keys == { species(values[i]) : i \in 1..Len(values) }
        Rank(key) == 1 + Cardinality({ other \in keys :
                                         FirstIndex(values, other) < FirstIndex(values, key) })
    IN  [r \in 1..Cardinality(keys) |->
            LET at == CHOOSE key \in keys : Rank(key) = r
            IN  <<at, Cardinality({ i \in 1..Len(values) : species(values[i]) = at })>>]

\* a plausible slip: >= for >, which keeps the earlier of two equal counts
largerOrEqual(a, b) == IF a[2] >= b[2] THEN a ELSE b

\* (a, b) => a[1] > b[1] ? a : b   (lines 81, 102; a[1] is the count, entry[2] here)
larger(a, b) == IF a[2] > b[2] THEN a ELSE b

RECURSIVE reduce(_)
reduce(entries) ==
    IF Len(entries) = 1 THEN entries[1]
    ELSE larger(reduce(SubSeq(entries, 1, Len(entries) - 1)), entries[Len(entries)])

\* Array.from(speciesCount).reduce(...)[0]; reduce throws on an empty array
maxSpecies(speciesCount) ==
    IF speciesCount = <<>> THEN TypeError ELSE reduce(speciesCount)[1]

-----------------------------------------------------------------------------
(* drawVisualization, lines 35-134 *)

\* hexbinGenerator.centers(), line 70: the centres of the cells covering the extent
hexPoints == << ScenarioQuery, ("0" :> 96) @@ ("1" :> 32) >>

Cells == 1..Len(hexPoints)

\* the squared distance of the point [x, y] from cell centre c
CentreDistance(p, c) ==
    (p["0"] - hexPoints[c]["0"]) * (p["0"] - hexPoints[c]["0"])
    + (p["1"] - hexPoints[c]["1"]) * (p["1"] - hexPoints[c]["1"])

\* the cell a point falls in: its nearest centre
CellOf(p) ==
    CHOOSE c \in Cells :
        \A e \in Cells :
            \/ CentreDistance(p, c) < CentreDistance(p, e)
            \/ CentreDistance(p, c) = CentreDistance(p, e) /\ c <= e

\* the points of cell c, in their order; a point with a NaN coordinate is in no cell
Select(points, c) ==
    LET InCell(p) == ~IsNaN(p["0"]) /\ ~IsNaN(p["1"]) /\ CellOf(p) = c
    IN  SelectSeq(points, InCell)

\* hexbinGenerator(points), line 67: the points of each occupied cell; d3-hexbin
\* skips a point whose x or y is NaN, and returns no bin for an empty cell
hexbinGenerator(points) ==
    [c \in {e \in Cells : Select(points, e) # <<>>} |-> Select(points, c)]

\* a plausible slip: no neighbours at all when fewer than k points exist
nearestNeighborsStrict(sorted, currentK) ==
    IF currentK > Len(sorted) THEN <<>> ELSE Slice(sorted, currentK)

\* a plausible slip: the single nearest neighbour, whatever k is
nearestNeighborsOne(sorted, currentK) == Slice(sorted, 1)

\* line 79
nearestNeighbors(sorted, currentK) == Slice(sorted, currentK)

\* lines 73-82, once for every order the sort can give
classifyPoint(point, limitedData, currentK) ==
    { LET speciesCount == rollup(nearestNeighbors(sorted, currentK))
      IN  [speciesCount |-> speciesCount, fill |-> maxSpecies(speciesCount)] :
      sorted \in sort(distances(limitedData, point)) }

\* lines 100-104: the fill of one bin
binFill(d) == maxSpecies(rollup(d))

EmptySvg == [hex |-> <<>>, bins |-> <<>>, binFill |-> <<>>, text |-> 0]

\* lines 85-91: the fill of every one of the first n cells, in every way the
\* classifications can end
RECURSIVE Fields(_, _, _)
Fields(n, limitedData, currentK) ==
    IF n = 0 THEN {<<>>}
    ELSE { Append(f, o) : f \in Fields(n - 1, limitedData, currentK),
                          o \in classifyPoint(hexPoints[n], limitedData, currentK) }

\* lines 64-134, for data that passed the guard of line 36
render(limitedData, currentK) ==
    LET points == [i \in 1..Len(limitedData) |->
                     ("0" :> limitedData[i].bill_length_mm)
                     @@ ("1" :> limitedData[i].bill_depth_mm)]
        bins == hexbinGenerator(points)
        fields == Fields(Len(hexPoints), limitedData, currentK)
    IN  { IF \E c \in Cells : f[c].fill = TypeError
          THEN [svg |-> EmptySvg, status |-> TypeError, calls |-> Len(hexPoints)]
          ELSE [svg |-> [hex |-> f, bins |-> bins,
                         binFill |-> [c \in DOMAIN bins |-> binFill(bins[c])],
                         text |-> currentK],
                status |-> "drawn", calls |-> Len(hexPoints)] :
          f \in fields }

\* render for every point set and every k of the range; @@ makes the table an
\* explicit one, computed once
Rendered ==
    <<>> @@ [dat \in DataSets, currentK \in 1..MaxK |->
                IF Len(dat) = 0 THEN {} ELSE render(Slice(dat, currentK), currentK)]

\* a plausible slip: the guard of line 36 left out
drawVisualizationNoGuard(dat, currentK, before) == render(Slice(dat, currentK), currentK)

\* lines 35-134: every way one call can end, given what the SVG held before
drawVisualization(dat, currentK, before) ==
    IF Len(dat) = 0
    THEN {[svg |-> before, status |-> "skipped", calls |-> 0]}
    ELSE IF currentK \in 1..MaxK
         THEN Rendered[dat, currentK]
         ELSE render(Slice(dat, currentK), currentK)

\* useEffect(() => drawVisualization(k), [data, k]), lines 148-150
DrawEffect(changed, newData, newK) ==
    IF changed
    THEN \E o \in drawVisualization(newData, newK, svg) :
            /\ svg' = o.svg
            /\ drawStatus' = o.status
            /\ classifyCalls' = o.calls
    ELSE UNCHANGED <<svg, drawStatus, classifyCalls>>

-----------------------------------------------------------------------------
(* The animation *)

\* requestAnimationFrame: a handle no live reference or request holds
requestAnimationFrame(fr, ref) ==
    CHOOSE id \in 1..(Cardinality(fr) + 2) :
        /\ id \notin fr /\ id # ref
        /\ \A other \in 1..(id - 1) : other \in fr \/ other = ref

cancelAnimationFrame(fr, id) == fr \ {id}

\* if (animationRef.current) cancelAnimationFrame(animationRef.current)
cancelCurrent(fr, ref) == IF ref # null THEN cancelAnimationFrame(fr, ref) ELSE fr

\* a plausible slip: nothing cancelled, neither by the cleanup nor on pause
isPlayingEffectNoCancel(playing, kk, ref, fr) ==
    IF playing
    THEN LET id == requestAnimationFrame(fr, ref)
         IN  [k |-> 1, animationRef |-> id, frames |-> fr \cup {id}]
    ELSE [k |-> kk, animationRef |-> ref, frames |-> fr]

\* useEffect(..., [isPlaying]), lines 177-198, run because isPlaying changed to
\* `playing`: the cleanup of the previous run, then the body
isPlayingEffect(playing, kk, ref, fr) ==
    LET cleaned == cancelCurrent(fr, ref)
    IN  IF playing
        THEN LET id == requestAnimationFrame(cleaned, ref)
             IN  [k |-> 1, animationRef |-> id, frames |-> cleaned \cup {id}]
        ELSE [k |-> kk, animationRef |-> ref, frames |-> cancelCurrent(cleaned, ref)]

\* a plausible slip: <= for <, one frame too many
animateUpdateOffByOne(prevK, playing, ref, fr) ==
    IF prevK <= MaxK
    THEN LET id == requestAnimationFrame(fr, ref)
         IN  [k |-> prevK + 1, isPlaying |-> playing,
              animationRef |-> id, frames |-> fr \cup {id}]
    ELSE IF playing
         THEN [isPlaying |-> FALSE] @@ isPlayingEffect(FALSE, prevK, ref, fr)
         ELSE [k |-> prevK, isPlaying |-> FALSE, animationRef |-> ref, frames |-> fr]

\* a plausible slip: setIsPlaying(false) forgotten at the end
animateUpdateNeverStops(prevK, playing, ref, fr) ==
    IF prevK < MaxK
    THEN LET id == requestAnimationFrame(fr, ref)
         IN  [k |-> prevK + 1, isPlaying |-> playing,
              animationRef |-> id, frames |-> fr \cup {id}]
    ELSE [k |-> prevK, isPlaying |-> playing, animationRef |-> ref, frames |-> fr]

\* the updater of animate, lines 137-145, with the effects its state changes cause
animateUpdate(prevK, playing, ref, fr) ==
    IF prevK < MaxK
    THEN LET id == requestAnimationFrame(fr, ref)
         IN  [k |-> prevK + 1, isPlaying |-> playing,
              animationRef |-> id, frames |-> fr \cup {id}]
    ELSE IF playing
         THEN [isPlaying |-> FALSE] @@ isPlayingEffect(FALSE, prevK, ref, fr)
         ELSE [k |-> prevK, isPlaying |-> FALSE, animationRef |-> ref, frames |-> fr]

-----------------------------------------------------------------------------
(* Actions *)

Init ==
    /\ data = <<>>
    /\ k = 1
    /\ isPlaying = FALSE
    /\ animationRef = null
    /\ frames = {}
    /\ fetchPc = "pending"
    /\ svg = EmptySvg
    /\ drawStatus = "skipped"
    /\ classifyCalls = 0

\* lines 22-32: the parsed rows arrive and setData stores them
fetchData ==
    /\ fetchPc = "pending"
    /\ fetchPc' = "done"
    /\ \E rows \in DataSets : data' = rows /\ DrawEffect(TRUE, rows, k)
    /\ UNCHANGED <<k, isPlaying, animationRef, frames>>

\* lines 213-218; the range input offers the values from min to max
sliderChange ==
    \E newValue \in SliderValues :
        /\ k' = IF newValue <= 100 THEN newValue ELSE k
        /\ DrawEffect(k' # k, data, k')
        /\ UNCHANGED <<data, isPlaying, animationRef, frames, fetchPc>>

\* lines 153-156: Space toggles isPlaying, and the isPlaying effect runs
handleKeyPress ==
    LET after == isPlayingEffect(~isPlaying, k, animationRef, frames)
    IN  /\ isPlaying' = ~isPlaying
        /\ k' = after.k
        /\ animationRef' = after.animationRef
        /\ frames' = after.frames
        /\ DrawEffect(k' # k, data, k')
        /\ UNCHANGED <<data, fetchPc>>

\* lines 136-146: the browser runs a requested frame
animate ==
    \E id \in frames :
        LET after == animateUpdate(k, isPlaying, animationRef, frames \ {id})
        IN  /\ k' = after.k
            /\ isPlaying' = after.isPlaying
            /\ animationRef' = after.animationRef
            /\ frames' = after.frames
            /\ DrawEffect(k' # k, data, k')
            /\ UNCHANGED <<data, fetchPc>>

Next == fetchData \/ sliderChange \/ handleKeyPress \/ animate

Spec == Init /\ [][Next]_vars

\* The same program while the user leaves a running animation alone: the slider
\* and the Space key are used only while nothing plays.  The browser runs every
\* frame it was asked for.
NextQuiet ==
    \/ fetchData
    \/ (~isPlaying /\ sliderChange)
    \/ (~isPlaying /\ handleKeyPress)
    \/ animate

LiveSpec == Init /\ [][NextQuiet]_vars /\ WF_vars(animate)

-----------------------------------------------------------------------------
(* Vocabulary of the properties *)

\* the truncated point set data.slice(0, k)
LimitedRows == [i \in 1..Min(k, Len(data)) |-> data[i]]

Labels == { LimitedRows[i].species : i \in 1..Len(LimitedRows) }

WellFormed(d) == ~IsNaN(d.bill_length_mm) /\ ~IsNaN(d.bill_depth_mm)

\* how many of the rows with indices in N carry label l
Votes(N, l) == Cardinality({ i \in N : LimitedRows[i].species = l })

\* the count a tally gives label l (0 when it has no entry for l)
CountIn(tally, l) ==
    IF \E i \in 1..Len(tally) : tally[i][1] = l
    THEN (CHOOSE e \in { tally[i] : i \in 1..Len(tally) } : e[1] = l)[2]
    ELSE 0

RECURSIVE Total(_)
Total(tally) == IF tally = <<>> THEN 0 ELSE tally[1][2] + Total(Tail(tally))

MaxCount(tally) == CHOOSE m \in { tally[i][2] : i \in 1..Len(tally) } :
                      \A i \in 1..Len(tally) : tally[i][2] <= m

\* the positions of a tally that hold the highest count
Tied(tally) == { i \in 1..Len(tally) : tally[i][2] = MaxCount(tally) }

Drawn == drawStatus = "drawn"

\* the squared distance of row i of the truncated set from the centre of cell c
Dist(i, c) == distance(LimitedRows[i], hexPoints[c])

AllNumeric(c) == \A i \in 1..Len(LimitedRows) : ~IsNaN(Dist(i, c))

\* the distance of the nearest row labelled l
Nearest(l, c) ==
    CHOOSE m \in { Dist(i, c) : i \in { j \in 1..Len(LimitedRows) : LimitedRows[j].species = l } } :
        \A i \in 1..Len(LimitedRows) : LimitedRows[i].species = l => m <= Dist(i, c)

-----------------------------------------------------------------------------
(* Properties *)

\* C1, as stated: when labels tie for the highest count among the k nearest
\* neighbours, the fill of the cell is the tied label that comes FIRST in the
\* tally's iteration order.  Stated for point sets of well-formed rows, where
\* the sorted order is the one ascending order.
C1_FirstTiedLabelWins ==
    (Drawn /\ \A i \in 1..Len(LimitedRows) : WellFormed(LimitedRows[i])) =>
        \A c \in Cells :
            LET tally == svg.hex[c].speciesCount
            IN  Cardinality(Tied(tally)) >= 2 =>
                    svg.hex[c].fill = tally[CHOOSE i \in Tied(tally) : \A j \in Tied(tally) : i <= j][1]

\* C1, amended: when labels tie for the highest count among the k nearest
\* neighbours, the fill of the cell is the tied label that comes LAST in the
\* tally's iteration order.
C1_LastTiedLabelWins ==
    Drawn =>
        \A c \in Cells :
            LET tally == svg.hex[c].speciesCount
            IN  Cardinality(Tied(tally)) >= 2 =>
                    svg.hex[c].fill = tally[CHOOSE i \in Tied(tally) : \A j \in Tied(tally) : i >= j][1]

C1_Witness ==
    /\ Drawn
    /\ \E c \in Cells :
          /\ Cardinality(Tied(svg.hex[c].speciesCount)) >= 2
          /\ svg.hex[c].fill = svg.hex[c].speciesCount[Len(svg.hex[c].speciesCount)][1]

\* C2: the fill of every occupied cell of the density overlay is a species with
\* the highest count among the rows binned into that cell.
C2_DensityFillIsMajoritySpecies ==
    Drawn =>
        \A c \in DOMAIN svg.bins :
            LET members == { i \in 1..Len(LimitedRows) :
                               /\ WellFormed(LimitedRows[i])
                               /\ CellOf(("0" :> LimitedRows[i].bill_length_mm)
                                         @@ ("1" :> LimitedRows[i].bill_depth_mm)) = c }
            IN  /\ svg.binFill[c] \in { LimitedRows[i].species : i \in members }
                /\ \A l \in Labels : Votes(members, l) <= Votes(members, svg.binFill[c])

\* a classification result o for cell c with k = kk: its tally counts the labels
\* of the min(kk, n) rows nearest to the centre, lists them in the order of
\* ascending distance, and its fill is a label whose count in it is maximal
IsMajorityOfNearest(o, c, kk) ==
    LET tally == o.speciesCount
        n == Len(LimitedRows)
    IN  /\ \E N \in SUBSET (1..n) :
              /\ Cardinality(N) = Min(kk, n)
              /\ AllNumeric(c) =>
                    \A i \in N : \A j \in (1..n) \ N : Dist(i, c) <= Dist(j, c)
              /\ \A l \in Labels \cup { tally[i][1] : i \in 1..Len(tally) } :
                    CountIn(tally, l) = Votes(N, l)
        /\ AllNumeric(c) =>
              \A a, b \in 1..Len(tally) :
                  a < b => Nearest(tally[a][1], c) <= Nearest(tally[b][1], c)
        /\ o.fill \in Labels
        /\ \A l \in Labels : CountIn(tally, l) <= CountIn(tally, o.fill)

C4_ClampToAllPoints ==
    (Len(data) > 0 /\ k >= Len(data)) =>
        /\ Drawn
        /\ \A c \in Cells : svg.hex[c] \in classifyPoint(hexPoints[c], data, Len(data))

C4_Witness == Len(data) = 2 /\ k > 2 /\ Drawn /\ svg.text = k

\* C5: k is an integer from 1 to 100 in every reachable state.
C5_KInRange == k \in 1..100

C5_Witness == k = 100 /\ ~isPlaying /\ animationRef # null /\ frames = {}

\* C6: while the point set is empty, a recompute does not fail, classifies
\* nothing and leaves what was displayed as it was.
C6_EmptyDataSkipsRedraw ==
    [][Len(data') = 0 =>
          /\ svg' = svg
          /\ drawStatus' = "skipped"
          /\ classifyCalls' = 0]_vars

C6_Witness ==
    /\ fetchPc = "done" /\ data = <<>> /\ k = 7
    /\ drawStatus = "skipped" /\ classifyCalls = 0 /\ svg = EmptySvg

\* C7: a row whose x or y is missing or not a number contributes no vote to any
\* classification and appears in no bin.
C7_MalformedRowsExcluded ==
    Drawn =>
        /\ \A c \in Cells :
              Total(svg.hex[c].speciesCount)
                  <= Cardinality({ i \in 1..Len(LimitedRows) : WellFormed(LimitedRows[i]) })
        /\ \A c \in DOMAIN svg.bins :
              \A i \in 1..Len(svg.bins[c]) :
                  ~IsNaN(svg.bins[c][i]["0"]) /\ ~IsNaN(svg.bins[c][i]["1"])

C9_EveryCellVotesOverAllRows ==
    Len(data) > 0 =>
        /\ Drawn
        /\ \A c \in Cells :
              /\ Total(svg.hex[c].speciesCount) = Len(LimitedRows)
              /\ svg.hex[c].fill \in Labels
              /\ \A l \in Labels :
                    Votes(1..Len(LimitedRows), l) <= Votes(1..Len(LimitedRows), svg.hex[c].fill)
        /\ \A l \in Labels :
              (\A m \in Labels \ {l} : Votes(1..Len(LimitedRows), m) < Votes(1..Len(LimitedRows), l))
                  => \A c \in Cells : svg.hex[c].fill = l

C9_Witness ==
    /\ data = ScenarioData /\ k = 50 /\ Drawn
    /\ Dist(3, 2) < Dist(1, 2) /\ LimitedRows[3].species = "B"
    /\ \A c \in Cells : svg.hex[c].fill = "A" /\ Total(svg.hex[c].speciesCount) = 3

\* C10: starting play sets k to 1; every frame of a running animation below
\* 100 adds exactly 1 to k and keeps playing; a running animation left alone
\* reaches k = 100 with isPlaying false and no frame requested; and from there
\* nothing but the user changes k, isPlaying or the requested frames.
C10_AnimationRunsToTheEnd ==
    /\ [][(~isPlaying /\ isPlaying') => k' = 1]_vars
    /\ [][(animate /\ k < 100) => (k' = k + 1 /\ isPlaying' /\ frames' # {})]_vars
    /\ isPlaying ~> (~isPlaying /\ k = 100 /\ frames = {})
    /\ [][(~isPlaying /\ k = 100 /\ frames = {} /\ ~handleKeyPress /\ ~sliderChange)
             => (k' = 100 /\ ~isPlaying' /\ frames' = {})]_vars

C10_Witness == ~isPlaying /\ k = 100 /\ frames = {} /\ animationRef # null /\ Drawn

=============================================================================
